---- MODULE Spec2Model ----
(***************************************************************************)
(* Vote tallying tool (src/src/main.rs): the pure function tally_votes and *)
(* the batch driver main.                                                  *)
(*                                                                         *)
(* Four specifications:                                                    *)
(*   Spec        one tally_votes call on an arbitrary election / vote list *)
(*   SpecReorder that call, then calls with the votes reordered            *)
(*   SpecCalls   a series of tally_votes calls, one of them remembered     *)
(*   SpecMain    one run of main over arbitrary file contents              *)
(*                                                                         *)
(* Option<T> is modelled as a sequence of length 0 (None) or 1 (Some).     *)
(* A HashMap<u32,u32> is a function whose DOMAIN is its key set; its       *)
(* iteration order is not fixed by std (RandomState), so every operator    *)
(* that iterates the map takes the order as a parameter and the actions    *)
(* choose it nondeterministically.                                         *)
(* The u32 counters hold at most the number of votes of one call, which    *)
(* stays far below 2^32 here, so their additions never wrap.               *)
(***************************************************************************)
EXTENDS Integers, Sequences, FiniteSets, TLC

VARIABLES election, votes, result, pc, remembered,
          election_file, votes_file, election_data, votes_data,
          result_json, result_file, stdout, exit_code, log

vars == <<election, votes, result, pc, remembered,
          election_file, votes_file, election_data, votes_data,
          result_json, result_file, stdout, exit_code, log>>

mainOnlyVars == <<election_file, votes_file, election_data, votes_data,
                  result_json, result_file, stdout, exit_code, log>>

----------------------------------------------------------------------------
(* Bounds *)

MaxChoices == 3
MaxVotes == 3
MaxReorderChoices == 2
MaxReorderVotes == 3
MaxCallChoices == 2
MaxCallVotes == 2
MaxFileChoices == 1
MaxFileLines == 2

----------------------------------------------------------------------------
(* Data model *)

\* The code only ever compares ids for equality: two contest ids give a
\* matching and a foreign contest, three choice ids let three choices differ
ContestIds == {1, 2}

ChoiceIds == {1, 2, 3}

CallChoiceIds == {1, 2}

None == << >>

Some(x) == <<x>>

BoundedSeq(S, n) == UNION {[1..k -> S] : k \in 0..n}

\* Choice.text is a payload the code never inspects: the j-th choice of an
\* election carries the j-th text, so choices sharing an id stay distinguishable
TextAt == <<"A", "B", "C", "D", "E">>

Choice == [id : ChoiceIds, text : {TextAt[j] : j \in DOMAIN TextAt}]

ChoiceLists(ids, n) ==
    UNION {{[j \in 1..k |-> [id |-> f[j], text |-> TextAt[j]]] : f \in [1..k -> ids]} :
              k \in 0..n}

ElectionOf(contests, ids, n) ==
    [id : contests, description : {"d"}, choices : ChoiceLists(ids, n)]

Election == ElectionOf(ContestIds, ChoiceIds, MaxChoices)

Vote == [contest_id : ContestIds, choice_id : ChoiceIds]

NoElection == [id |-> 0, description |-> "", choices |-> << >>]

NoResult == [contest_id |-> 0, total_votes |-> 0, results |-> << >>, winner |-> None]

----------------------------------------------------------------------------
(* tally_votes *)

\* any(|c| c.id == vote.choice_id)
HasChoice(e, id) == \E j \in 1..Len(e.choices) : e.choices[j].id = id

AcceptsNoFilter(e, v) == HasChoice(e, v.choice_id)

AcceptsNoChoiceCheck(e, v) == v.contest_id = e.id

\* the filter of line 54 and the test of line 55
Accepts(e, v) == v.contest_id = e.id /\ HasChoice(e, v.choice_id)

\* *vote_counts.entry(k).or_insert(0) += 1
Increment(counts, k) ==
    IF k \in DOMAIN counts
    THEN [counts EXCEPT ![k] = @ + 1]
    ELSE [x \in DOMAIN counts \cup {k} |-> IF x = k THEN 1 ELSE counts[x]]

RECURSIVE CountFrom(_, _, _, _)
CountFrom(e, vs, i, counts) ==
    IF i > Len(vs) THEN counts
    ELSE CountFrom(e, vs, i + 1,
                   IF Accepts(e, vs[i]) THEN Increment(counts, vs[i].choice_id)
                   ELSE counts)

RECURSIVE CountUntilRejected(_, _, _, _)
CountUntilRejected(e, vs, i, counts) ==
    IF i > Len(vs) \/ ~Accepts(e, vs[i]) THEN counts
    ELSE CountUntilRejected(e, vs, i + 1, Increment(counts, vs[i].choice_id))

CountVotesTakeWhile(e, vs) == CountUntilRejected(e, vs, 1, << >>)

\* the loop of lines 51-58, starting from HashMap::new()
CountVotes(e, vs) == CountFrom(e, vs, 1, << >>)

\* the orders in which a map with these keys can be iterated
IterOrders(counts) ==
    {o \in [1..Cardinality(DOMAIN counts) -> DOMAIN counts] :
        \A a, b \in DOMAIN o : a # b => o[a] # o[b]}

RECURSIVE SumInOrder(_, _, _)
SumInOrder(counts, order, i) ==
    IF i > Len(order) THEN 0
    ELSE counts[order[i]] + SumInOrder(counts, order, i + 1)

\* vote_counts.values().sum()
TotalVotes(counts, order) == SumInOrder(counts, order, 1)

\* vote_counts.get(&id).unwrap_or(&0)
GetOrZero(counts, id) == IF id \in DOMAIN counts THEN counts[id] ELSE 0

BuildResultsFromMap(e, counts, order) ==
    [i \in 1..Len(order) |->
        [choice_id |-> order[i], total_count |-> counts[order[i]]]]

BuildResultsVotedOnly(e, counts, order) ==
    LET voted == SelectSeq(e.choices, LAMBDA c : c.id \in DOMAIN counts)
    IN [i \in 1..Len(voted) |->
           [choice_id |-> voted[i].id, total_count |-> counts[voted[i].id]]]

\* election.choices.iter().map(..).collect(); the map is only looked up
BuildResults(e, counts, order) ==
    [i \in 1..Len(e.choices) |->
        [choice_id |-> e.choices[i].id,
         total_count |-> GetOrZero(counts, e.choices[i].id)]]

\* insertion of x into a list sorted by count descending, after its equals
RECURSIVE InsertAfterEquals(_, _)
InsertAfterEquals(sorted, x) ==
    IF sorted = << >> THEN <<x>>
    ELSE IF Head(sorted).total_count >= x.total_count
         THEN <<Head(sorted)>> \o InsertAfterEquals(Tail(sorted), x)
         ELSE <<x>> \o sorted

RECURSIVE InsertBeforeEquals(_, _)
InsertBeforeEquals(sorted, x) ==
    IF sorted = << >> THEN <<x>>
    ELSE IF Head(sorted).total_count > x.total_count
         THEN <<Head(sorted)>> \o InsertBeforeEquals(Tail(sorted), x)
         ELSE <<x>> \o sorted

RECURSIVE SortFrom(_, _, _)
SortFrom(rs, i, sorted) ==
    IF i > Len(rs) THEN sorted
    ELSE SortFrom(rs, i + 1, InsertAfterEquals(sorted, rs[i]))

RECURSIVE UnstableSortFrom(_, _, _)
UnstableSortFrom(rs, i, sorted) ==
    IF i > Len(rs) THEN sorted
    ELSE UnstableSortFrom(rs, i + 1, InsertBeforeEquals(sorted, rs[i]))

SortUnstable(rs) == UnstableSortFrom(rs, 1, << >>)

\* results.sort_by(|a, b| b.total_count.cmp(&a.total_count)): slice::sort_by
\* is a stable sort, and an insertion sort for a slice this short
SortByCountDesc(rs) == SortFrom(rs, 1, << >>)

\* election.choices.iter().find(|c| c.id == id).cloned()
FindChoice(e, id) ==
    IF HasChoice(e, id)
    THEN Some(e.choices[CHOOSE j \in 1..Len(e.choices) :
                  /\ e.choices[j].id = id
                  /\ \A k \in 1..(j - 1) : e.choices[k].id # id])
    ELSE None

WinnerNoTieCheck(e, rs) ==
    IF Len(rs) = 0 THEN None
    ELSE IF rs[1].total_count > 0 THEN FindChoice(e, rs[1].choice_id)
    ELSE None

WinnerZeroAllowed(e, rs) ==
    IF Len(rs) > 1 /\ rs[1].total_count = rs[2].total_count THEN None
    ELSE IF Len(rs) = 0 THEN None
    ELSE FindChoice(e, rs[1].choice_id)

WinnerNeedsRunnerUp(e, rs) ==
    IF Len(rs) > 1 /\ rs[1].total_count > rs[2].total_count
    THEN FindChoice(e, rs[1].choice_id)
    ELSE None

\* lines 71-81
Winner(e, rs) ==
    IF Len(rs) > 1 /\ rs[1].total_count = rs[2].total_count THEN None
    ELSE IF Len(rs) = 0 THEN None
    ELSE IF rs[1].total_count > 0 THEN FindChoice(e, rs[1].choice_id)
    ELSE None

\* lines 50-89; order is the iteration order of vote_counts in this call
tally_votes(e, vs, order) ==
    LET vote_counts == CountVotes(e, vs)
        results == SortByCountDesc(BuildResults(e, vote_counts, order))
    IN [contest_id |-> e.id,
        total_votes |-> TotalVotes(vote_counts, order),
        results |-> results,
        winner |-> Winner(e, results)]

----------------------------------------------------------------------------
(* Spec: one call of tally_votes, as the unit tests make it *)

MainIdle ==
    /\ election_file = None /\ votes_file = None
    /\ election_data = None /\ votes_data = None
    /\ result_json = None /\ result_file = None
    /\ stdout = << >> /\ exit_code = None /\ log = << >>

Init ==
    /\ election \in Election
    /\ votes \in BoundedSeq(Vote, MaxVotes)
    /\ result = NoResult
    /\ pc = "ready"
    /\ remembered = None
    /\ MainIdle

Tally ==
    /\ pc = "ready"
    /\ \E order \in IterOrders(CountVotes(election, votes)) :
          result' = tally_votes(election, votes, order)
    /\ pc' = "done"
    /\ UNCHANGED <<election, votes, remembered>>
    /\ UNCHANGED mainOnlyVars

Next == Tally

Spec == Init /\ [][Next]_vars

----------------------------------------------------------------------------
(* SpecReorder: tally_votes is called again on the same election with two  *)
(* of the votes exchanged; any reordering of the votes is a series of such *)
(* exchanges.                                                              *)

InitReorder ==
    /\ election \in ElectionOf(ContestIds, ChoiceIds, MaxReorderChoices)
    /\ votes \in BoundedSeq(Vote, MaxReorderVotes)
    /\ result = NoResult
    /\ pc = "ready"
    /\ remembered = None
    /\ MainIdle

Swap(vs, i, j) ==
    [k \in 1..Len(vs) |-> IF k = i THEN vs[j] ELSE IF k = j THEN vs[i] ELSE vs[k]]

TallyReordered ==
    /\ pc \in {"done", "reordered"}
    /\ \E i, j \in 1..Len(votes) :
          /\ i < j
          /\ votes' = Swap(votes, i, j)
          /\ \E order \in IterOrders(CountVotes(election, votes')) :
                result' = tally_votes(election, votes', order)
    /\ pc' = "reordered"
    /\ UNCHANGED <<election, remembered>>
    /\ UNCHANGED mainOnlyVars

NextReorder == Tally \/ TallyReordered

SpecReorder == InitReorder /\ [][NextReorder]_vars

----------------------------------------------------------------------------
(* SpecCalls: tally_votes called again and again.  tally_votes has no      *)
(* static and captures nothing: a call reads its two arguments only, and   *)
(* its locals are dropped on return.  One earlier call is remembered, with *)
(* its arguments and its output, to compare a later call with.             *)

CallElection == ElectionOf({1}, CallChoiceIds, MaxCallChoices)

CallVotes ==
    BoundedSeq([contest_id : {1}, choice_id : CallChoiceIds]
                  \cup {[contest_id |-> 2, choice_id |-> 1]},
               MaxCallVotes)

InitCalls ==
    /\ election = NoElection
    /\ votes = << >>
    /\ result = NoResult
    /\ pc = "idle"
    /\ remembered = None
    /\ MainIdle

Call ==
    /\ pc = "idle"
    /\ \E e \in CallElection, vs \in CallVotes :
          /\ election' = e
          /\ votes' = vs
          /\ \E order \in IterOrders(CountVotes(e, vs)) :
                result' = tally_votes(e, vs, order)
    /\ pc' = "returned"
    /\ UNCHANGED remembered
    /\ UNCHANGED mainOnlyVars

Return ==
    /\ pc = "returned"
    /\ pc' = "idle"
    /\ election' = NoElection
    /\ votes' = << >>
    /\ result' = NoResult
    /\ \/ UNCHANGED remembered
       \/ /\ remembered = None
          /\ remembered' = Some([election |-> election, votes |-> votes,
                                 result |-> result])
    /\ UNCHANGED mainOnlyVars

NextCalls == Call \/ Return

SpecCalls == InitCalls /\ [][NextCalls]_vars

----------------------------------------------------------------------------
(* SpecMain: one run of main.  A file is None when it cannot be read and   *)
(* Some(text) otherwise.  The text of election.json is a JSON document:    *)
(* syntax_ok says whether it is a JSON object at all, and each field is    *)
(* None when the object lacks it.  The text of votes.json is a list of     *)
(* lines, each such a document.                                            *)

Opt(S) == {None} \cup {Some(x) : x \in S}

JsonIds == {-1, 1}

ChoiceJson == [id : Opt(JsonIds), text : Opt({"A"})]

BadElectionJson ==
    [syntax_ok |-> FALSE, id |-> None, description |-> None, choices |-> None]

ElectionJson ==
    [syntax_ok : {TRUE}, id : Opt(JsonIds), description : Opt({"d"}),
     choices : Opt(BoundedSeq(ChoiceJson, MaxFileChoices))]
    \cup {BadElectionJson}

BadVoteJson == [syntax_ok |-> FALSE, contest_id |-> None, choice_id |-> None]

VoteJson ==
    [syntax_ok : {TRUE}, contest_id : Opt(ContestIds), choice_id : Opt(CallChoiceIds)]
    \cup {BadVoteJson}

\* a u32 field: present and not negative
IsU32(field) == field # None /\ field[1] >= 0

\* serde_json::from_str::<Choice>, as derived: both fields are required
ParseChoice(doc) ==
    IF IsU32(doc.id) /\ doc.text # None
    THEN Some([id |-> doc.id[1], text |-> doc.text[1]])
    ELSE None

\* serde_json::from_str::<Election> (line 96): Err unless the text is an
\* object with id, description and choices, every choice parsing too
ParseElection(doc) ==
    IF /\ doc.syntax_ok
       /\ IsU32(doc.id)
       /\ doc.description # None
       /\ doc.choices # None
       /\ \A j \in 1..Len(doc.choices[1]) : ParseChoice(doc.choices[1][j]) # None
    THEN Some([id |-> doc.id[1],
               description |-> doc.description[1],
               choices |-> [j \in 1..Len(doc.choices[1]) |->
                               ParseChoice(doc.choices[1][j])[1]]])
    ELSE None

\* serde_json::from_str::<Vote> on one line
ParseVote(doc) ==
    IF doc.syntax_ok /\ IsU32(doc.contest_id) /\ IsU32(doc.choice_id)
    THEN Some([contest_id |-> doc.contest_id[1], choice_id |-> doc.choice_id[1]])
    ELSE None

ParseVoteLinesSkipBad(lines) ==
    LET good == SelectSeq(lines, LAMBDA l : ParseVote(l) # None)
    IN Some([i \in 1..Len(good) |-> ParseVote(good[i])[1]])

\* line 97: every line is parsed and unwrapped; None stands for the panic of
\* unwrap on the first line that does not parse
ParseVoteLines(lines) ==
    IF \A i \in 1..Len(lines) : ParseVote(lines[i]) # None
    THEN Some([i \in 1..Len(lines) |-> ParseVote(lines[i])[1]])
    ELSE None

\* serde_json::to_string_pretty(&result): the JSON object of the result
ToStringPretty(r) ==
    [contest_id |-> r.contest_id, total_votes |-> r.total_votes,
     results |-> r.results, winner |-> r.winner]

CompletionMessage == "Tallying completed. Results written to result.json."

ExitOk == 0

\* main returned Err
ExitErr == 1

\* the process panicked
ExitPanic == 101

InitMain ==
    /\ election_file \in Opt(ElectionJson)
    /\ votes_file \in Opt(BoundedSeq(VoteJson, MaxFileLines))
    /\ election_data = None
    /\ votes_data = None
    /\ election = NoElection
    /\ votes = << >>
    /\ result = NoResult
    /\ result_json = None
    /\ result_file = None
    /\ stdout = << >>
    /\ exit_code = None
    /\ log = << >>
    /\ pc = "read_election"
    /\ remembered = None

\* the error of a ? is returned from main
Fail(code) ==
    /\ pc' = "exit"
    /\ exit_code' = Some(code)

\* line 93
ReadElection ==
    /\ pc = "read_election"
    /\ log' = Append(log, "read_election")
    /\ IF election_file = None
       THEN Fail(ExitErr) /\ UNCHANGED election_data
       ELSE /\ election_data' = election_file
            /\ pc' = "read_votes"
            /\ UNCHANGED exit_code
    /\ UNCHANGED <<election, votes, result, remembered, election_file, votes_file,
                   votes_data, result_json, result_file, stdout>>

\* line 94
ReadVotes ==
    /\ pc = "read_votes"
    /\ log' = Append(log, "read_votes")
    /\ IF votes_file = None
       THEN Fail(ExitErr) /\ UNCHANGED votes_data
       ELSE /\ votes_data' = votes_file
            /\ pc' = "parse_election"
            /\ UNCHANGED exit_code
    /\ UNCHANGED <<election, votes, result, remembered, election_file, votes_file,
                   election_data, result_json, result_file, stdout>>

\* line 96
ParseElectionStep ==
    /\ pc = "parse_election"
    /\ log' = Append(log, "parse_election")
    /\ IF ParseElection(election_data[1]) = None
       THEN Fail(ExitErr) /\ UNCHANGED election
       ELSE /\ election' = ParseElection(election_data[1])[1]
            /\ pc' = "parse_votes"
            /\ UNCHANGED exit_code
    /\ UNCHANGED <<votes, result, remembered, election_file, votes_file,
                   election_data, votes_data, result_json, result_file, stdout>>

\* line 97
ParseVotesStep ==
    /\ pc = "parse_votes"
    /\ log' = Append(log, "parse_votes")
    /\ IF ParseVoteLines(votes_data[1]) = None
       THEN Fail(ExitPanic) /\ UNCHANGED votes
       ELSE /\ votes' = ParseVoteLines(votes_data[1])[1]
            /\ pc' = "tally"
            /\ UNCHANGED exit_code
    /\ UNCHANGED <<election, result, remembered, election_file, votes_file,
                   election_data, votes_data, result_json, result_file, stdout>>

\* line 99
TallyStep ==
    /\ pc = "tally"
    /\ log' = Append(log, "tally")
    /\ \E order \in IterOrders(CountVotes(election, votes)) :
          result' = tally_votes(election, votes, order)
    /\ pc' = "serialize"
    /\ UNCHANGED <<election, votes, remembered, election_file, votes_file,
                   election_data, votes_data, result_json, result_file, stdout,
                   exit_code>>

\* line 101: to_string_pretty cannot fail on a ResultData (integers, strings,
\* sequences and an option only), so its ? never returns
Serialize ==
    /\ pc = "serialize"
    /\ log' = Append(log, "serialize")
    /\ result_json' = Some(ToStringPretty(result))
    /\ pc' = "write"
    /\ UNCHANGED <<election, votes, result, remembered, election_file, votes_file,
                   election_data, votes_data, result_file, stdout, exit_code>>

\* line 102: fs::write either stores the whole text or fails, leaving no
\* file or a file that is not the whole text
WriteResult ==
    /\ pc = "write"
    /\ log' = Append(log, "write")
    /\ \/ /\ result_file' = Some([complete |-> TRUE, text |-> result_json[1]])
          /\ pc' = "print"
          /\ UNCHANGED exit_code
       \/ /\ result_file' \in {None, Some([complete |-> FALSE,
                                            text |-> ToStringPretty(NoResult)])}
          /\ Fail(ExitErr)
    /\ UNCHANGED <<election, votes, result, remembered, election_file, votes_file,
                   election_data, votes_data, result_json, stdout>>

\* lines 104-106
PrintDone ==
    /\ pc = "print"
    /\ log' = Append(log, "print")
    /\ stdout' = Append(stdout, CompletionMessage)
    /\ pc' = "exit"
    /\ exit_code' = Some(ExitOk)
    /\ UNCHANGED <<election, votes, result, remembered, election_file, votes_file,
                   election_data, votes_data, result_json, result_file>>

NextMain ==
    \/ ReadElection
    \/ ReadVotes
    \/ ParseElectionStep
    \/ ParseVotesStep
    \/ TallyStep
    \/ Serialize
    \/ WriteResult
    \/ PrintDone

SpecMain == InitMain /\ [][NextMain]_vars

----------------------------------------------------------------------------
(* Reference quantities, stated over the inputs only *)

Perms(n) == {p \in [1..n -> 1..n] : \A a, b \in 1..n : a # b => p[a] # p[b]}

ValidVoteIndices ==
    {i \in 1..Len(votes) :
        /\ votes[i].contest_id = election.id
        /\ \E j \in 1..Len(election.choices) :
              election.choices[j].id = votes[i].choice_id}

ValidCountFor(id) ==
    Cardinality({i \in 1..Len(votes) :
        votes[i].contest_id = election.id /\ votes[i].choice_id = id})

ChoiceIdsOf(e) == {e.choices[j].id : j \in 1..Len(e.choices)}

MaxCount(rs) ==
    CHOOSE m \in {rs[i].total_count : i \in 1..Len(rs)} :
        \A i \in 1..Len(rs) : rs[i].total_count <= m

TopIndices(rs) == {i \in 1..Len(rs) : rs[i].total_count = MaxCount(rs)}

IdSeq(s) == [i \in 1..Len(s) |-> s[i].id]

ChoiceIdSeq(s) == [i \in 1..Len(s) |-> s[i].choice_id]

Returned == pc = "done"

----------------------------------------------------------------------------
(* Claims about one call (Spec) *)

\* C1: total_votes is the number of votes whose contest_id is the election's
\* id and whose choice_id is the id of some choice; each such vote counts
\* once, every other vote not at all.
C1_TotalVotesCountsValidVotes ==
    Returned => result.total_votes = Cardinality(ValidVoteIndices)

C1_Witness ==
    /\ Returned
    /\ Len(election.choices) = 2
    /\ election.choices[1].id = election.choices[2].id
    /\ Len(votes) = 3
    /\ \E i, j, k \in 1..3 :
          /\ i \in ValidVoteIndices
          /\ votes[j].contest_id # election.id
          /\ votes[j].choice_id \in ChoiceIdsOf(election)
          /\ votes[k].contest_id = election.id
          /\ votes[k].choice_id \notin ChoiceIdsOf(election)
    /\ result.total_votes = 1

\* C2: results has one entry per choice, duplicates included, and is a
\* permutation of the list pairing each choice's id with the number of valid
\* votes for that id (0 when there is none).
C2_ResultsOneEntryPerChoice ==
    Returned =>
        /\ Len(result.results) = Len(election.choices)
        /\ \E p \in Perms(Len(election.choices)) :
              \A i \in 1..Len(election.choices) :
                 result.results[i] =
                    [choice_id |-> election.choices[p[i]].id,
                     total_count |-> ValidCountFor(election.choices[p[i]].id)]

C2_Witness ==
    /\ Returned
    /\ Len(election.choices) = 3
    /\ election.choices[1].id = election.choices[3].id
    /\ election.choices[2].id # election.choices[1].id
    /\ ValidCountFor(election.choices[1].id) = 2
    /\ ValidCountFor(election.choices[2].id) = 0
    /\ Len(result.results) = 3
    /\ result.results[3] = [choice_id |-> election.choices[2].id, total_count |-> 0]

\* C3: no winner when at least two entries share the highest count (0
\* included), and no winner when the highest count is 0.
C3_NoWinnerOnTieOrZero ==
    (/\ Returned
     /\ Len(result.results) >= 1
     /\ \/ Cardinality(TopIndices(result.results)) >= 2
        \/ MaxCount(result.results) = 0)
    => result.winner = None

C3_Witness ==
    /\ Returned
    /\ Len(result.results) >= 2
    /\ result.results[1].total_count = result.results[2].total_count
    /\ result.results[1].total_count > 0
    /\ result.results[1].choice_id # result.results[2].choice_id
    /\ result.winner = None

C3_WitnessSingleZero ==
    /\ Returned
    /\ Len(result.results) = 1
    /\ result.results[1].total_count = 0
    /\ result.winner = None

\* C4: with a highest count of at least 1 that no other entry reaches, the
\* winner is a copy of the first choice, in election order, whose id is the
\* id of the top entry; a single choice with a valid vote wins.
C4_WinnerIsFirstChoiceWithTopId ==
    (/\ Returned
     /\ Len(result.results) >= 1
     /\ MaxCount(result.results) >= 1
     /\ \/ Len(result.results) = 1
        \/ Cardinality(TopIndices(result.results)) = 1)
    => \E j \in 1..Len(election.choices) :
          /\ election.choices[j].id = result.results[1].choice_id
          /\ \A k \in 1..(j - 1) :
                election.choices[k].id # result.results[1].choice_id
          /\ result.winner = Some(election.choices[j])

C4_Witness ==
    /\ Returned
    /\ Len(election.choices) = 3
    /\ result.results[1].total_count = 2
    /\ result.results[2].total_count = 1
    /\ result.winner = Some(election.choices[3])

C4_WitnessSingleChoice ==
    /\ Returned
    /\ Len(election.choices) = 1
    /\ result.total_votes >= 1
    /\ result.winner = Some(election.choices[1])

\* C5: an election without choices yields total_votes 0, no results and no
\* winner, whatever the votes.
C5_EmptyChoices ==
    (Returned /\ Len(election.choices) = 0) =>
        /\ result.total_votes = 0
        /\ result.results = << >>
        /\ result.winner = None

C5_Witness ==
    /\ Returned
    /\ Len(election.choices) = 0
    /\ \E i \in 1..Len(votes) : votes[i].contest_id = election.id
    /\ result.total_votes = 0
    /\ result.results = << >>

\* C8: results is ordered by count, non-increasing, and entries with equal
\* counts keep the relative order of their choices in the election.
C8_SortedDescendingStable ==
    Returned =>
        /\ \A i \in 1..(Len(result.results) - 1) :
              result.results[i].total_count >= result.results[i + 1].total_count
        /\ \A c \in 0..Len(votes) :
              ChoiceIdSeq(SelectSeq(result.results, LAMBDA r : r.total_count = c))
                = IdSeq(SelectSeq(election.choices,
                                  LAMBDA ch : ValidCountFor(ch.id) = c))

C8_Witness ==
    /\ Returned
    /\ Len(election.choices) = 3
    /\ ValidCountFor(election.choices[1].id) = 0
    /\ ValidCountFor(election.choices[2].id) = 0
    /\ ValidCountFor(election.choices[3].id) = 1
    /\ election.choices[1].id # election.choices[2].id
    /\ ChoiceIdSeq(result.results) =
          <<election.choices[3].id, election.choices[1].id, election.choices[2].id>>

\* C9: a returned winner's id belongs to exactly one choice, and its entry's
\* count is strictly greater than the count of every other entry.
C9_WinnerIdUniqueAndStrictlyAhead ==
    (Returned /\ result.winner # None) =>
        /\ Cardinality({j \in 1..Len(election.choices) :
                election.choices[j].id = result.winner[1].id}) = 1
        /\ \E i \in 1..Len(result.results) :
              /\ result.results[i].choice_id = result.winner[1].id
              /\ \A k \in 1..Len(result.results) :
                    k # i => result.results[k].total_count
                                < result.results[i].total_count

C9_Witness ==
    /\ Returned
    /\ result.winner # None
    /\ Len(election.choices) = 3
    /\ election.choices[2].id = election.choices[3].id
    /\ result.winner[1].id = election.choices[1].id
    /\ result.results[2].total_count = 1

----------------------------------------------------------------------------
(* Claim about reordered votes (SpecReorder) *)

\* C10: the output does not depend on the order of the votes: tallying the
\* same election again after any exchange of two votes, and so after any
\* permutation of the votes, returns the same total_votes, the same results
\* in the same order and the same winner.
C10_VoteOrderIrrelevant ==
    [][(pc \in {"done", "reordered"}) => (result' = result)]_vars

C10_Witness ==
    /\ pc = "reordered"
    /\ Len(votes) = 3
    /\ 1 \in ValidVoteIndices
    /\ 2 \notin ValidVoteIndices
    /\ 3 \in ValidVoteIndices
    /\ votes[1].choice_id # votes[3].choice_id
    /\ result.total_votes = 2
    /\ result.winner = None

----------------------------------------------------------------------------
(* Claim about repeated calls (SpecCalls) *)

SameInputsAsRemembered ==
    /\ pc = "returned"
    /\ remembered # None
    /\ remembered[1].election = election
    /\ remembered[1].votes = votes

\* C7: a call of tally_votes with the inputs of an earlier call returns the
\* same contest_id, total_votes, results (same order) and winner, whatever
\* calls were made in between.
C7_SameInputsSameOutput ==
    SameInputsAsRemembered =>
        /\ result.contest_id = remembered[1].result.contest_id
        /\ result.total_votes = remembered[1].result.total_votes
        /\ result.results = remembered[1].result.results
        /\ result.winner = remembered[1].result.winner

C7_Witness ==
    /\ SameInputsAsRemembered
    /\ Cardinality(DOMAIN CountVotes(election, votes)) = 2
    /\ result.total_votes = 2
    /\ result = remembered[1].result

----------------------------------------------------------------------------
(* Claim about main (SpecMain) *)

StepOrder ==
    <<"read_election", "read_votes", "parse_election", "parse_votes",
      "tally", "serialize", "write", "print">>

IsPrefix(s, t) == Len(s) <= Len(t) /\ \A i \in 1..Len(s) : s[i] = t[i]

Logged(step) == \E i \in 1..Len(log) : log[i] = step

\* an election text lacking a required field, or not a JSON object, or with
\* an id that is no u32
ElectionTextBad(doc) ==
    \/ ~doc.syntax_ok
    \/ doc.id = None \/ doc.description = None \/ doc.choices = None
    \/ doc.id # None /\ doc.id[1] < 0
    \/ /\ doc.choices # None
       /\ \E j \in 1..Len(doc.choices[1]) :
             LET c == doc.choices[1][j]
             IN c.id = None \/ c.text = None \/ (c.id # None /\ c.id[1] < 0)

VoteLineBad(doc) ==
    ~doc.syntax_ok \/ doc.contest_id = None \/ doc.choice_id = None

InputFails ==
    \/ election_file = None
    \/ votes_file = None
    \/ election_file # None /\ ElectionTextBad(election_file[1])
    \/ votes_file # None /\ \E i \in 1..Len(votes_file[1]) : VoteLineBad(votes_file[1][i])

\* C6: the steps of main run in source order, none twice; when a read fails,
\* the election does not parse or a vote line is malformed, tally_votes is
\* never invoked, nothing is written or printed, and the run ends with a
\* non-zero exit code; the message is printed only after result.json was
\* written whole.
C6_MainAbortsOnBadInput ==
    /\ IsPrefix(log, StepOrder)
    /\ InputFails =>
          /\ ~Logged("tally") /\ ~Logged("write") /\ ~Logged("print")
          /\ result = NoResult
          /\ result_file = None
          /\ stdout = << >>
          /\ pc \notin {"tally", "serialize", "write", "print"}
          /\ pc = "exit" => exit_code # None /\ exit_code[1] # 0
    /\ stdout # << >> =>
          /\ stdout = <<CompletionMessage>>
          /\ result_file = Some([complete |-> TRUE, text |-> ToStringPretty(result)])
          /\ log = StepOrder
    /\ Logged("tally") => election_data # None /\ votes_data # None

C6_Witness ==
    /\ pc = "exit"
    /\ exit_code = Some(ExitPanic)
    /\ log = <<"read_election", "read_votes", "parse_election", "parse_votes">>
    /\ Len(votes_file[1]) = 2
    /\ ~VoteLineBad(votes_file[1][1])
    /\ VoteLineBad(votes_file[1][2])
    /\ result_file = None
    /\ stdout = << >>

C6_WitnessSuccess ==
    /\ pc = "exit"
    /\ exit_code = Some(ExitOk)
    /\ log = StepOrder
    /\ result.total_votes = 2
    /\ stdout = <<CompletionMessage>>

====
